---- MODULE Spec2Model ----
(***************************************************************************)
(* Graph sampling engines of Custom_Sampling.py: RWEB, IRWEB, SB and TIES, *)
(* with their checkpoint mechanism.  One behaviour of the model is one     *)
(* call of one engine; every random choice of the code is a                *)
(* nondeterministic choice of the model.                                   *)
(***************************************************************************)
EXTENDS Integers, Sequences, FiniteSets, TLC

\* ---------------------------------------------------------------- bounds
MaxNodes == 3        \* caller graphs have 0..MaxNodes nodes
MaxEdges == 3        \* and 0..MaxEdges edges
MaxN == 4            \* max_n (n for IRWEB) ranges over 0..MaxN
MaxK == 2            \* k ranges over 0..MaxK
MaxCheckpoints == 2  \* checkpoint_sizes has 0..MaxCheckpoints entries
MaxThreshold == 2    \* each threshold ranges over 1..MaxThreshold

VARIABLES
    engine,                     \* which function is called
    G,                          \* the caller's graph object (argument G)
    max_n,                      \* argument max_n (argument n of IRWEB)
    k,                          \* argument k of SB
    checkpoint_sizes,           \* the caller's list object, sorted in place
    G_copy,                     \* relabeled working copy
    sampled_graph,
    start_node,
    stack,                      \* RWEB, IRWEB
    current_node,               \* IRWEB, SB
    visited,                    \* IRWEB, SB
    walk_edges_visited,         \* IRWEB
    queue,                      \* SB
    neighbors,                  \* SB: shuffled neighbours the for loop has not reached yet
    neighbors_to_explore_count, \* SB
    edges,                      \* TIES: shuffled edges the for loop has not reached yet
    sampled_nodes,              \* TIES
    checkpoint_graphs,
    current_checkpoint_idx,
    pc,                         \* "call", "loop", "for", "done", "error"
    result                      \* the returned list (IRWEB: its one graph)

vars == <<engine, G, max_n, k, checkpoint_sizes, G_copy, sampled_graph,
          start_node, stack, current_node, visited, walk_edges_visited,
          queue, neighbors, neighbors_to_explore_count, edges, sampled_nodes,
          checkpoint_graphs, current_checkpoint_idx, pc, result>>

\* ------------------------------------------------- the graph abstraction
\* A graph value: a set of nodes and a set of undirected edges {u, v}.
\* A self-loop would be the one-element edge {u}.
EmptyGraph == [nodes |-> {}, edges |-> {}]

\* Python's None in a checkpoint slot.
None == [nodes |-> {-1}, edges |-> {}]

NoNode == -1

number_of_nodes(g) == Cardinality(g.nodes)

Neighbors(g, n) == {m \in g.nodes : {n, m} \in g.edges}

add_node(g, n) == [g EXCEPT !.nodes = @ \cup {n}]

\* Mutant: the endpoints are added, the edge is not.
add_edge_NodesOnly(g, u, v) == [g EXCEPT !.nodes = @ \cup {u, v}]

\* networkx add_edge also adds missing endpoints
add_edge(g, u, v) == [nodes |-> g.nodes \cup {u, v}, edges |-> g.edges \cup {{u, v}}]

\* Mutant: blocks the node instead of the edge (every edge at u goes).
remove_edge_BlocksNode(g, u, v) == [g EXCEPT !.edges = {e \in @ : u \notin e}]

remove_edge(g, u, v) == [g EXCEPT !.edges = @ \ {{u, v}}]

\* Mutant: keeps the nodes of S and drops every edge.
subgraph_NodesOnly(g, S) == [nodes |-> g.nodes \cap S, edges |-> {}]

\* G.subgraph(S): the subgraph induced on S
subgraph(g, S) ==
    [nodes |-> g.nodes \cap S, edges |-> {e \in g.edges : e \subseteq S}]

\* The caller's label of the i-th node of a caller graph.
Label(i) == 10 * i

\* convert_node_labels_to_integers(G.copy(), 0, 'default', True): the
\* mapping sends the i-th node in G's order to the integer i - 1
\* (first_label = 0), and every edge to the pair of its endpoints' integers.
Relabel(g) ==
    LET mapping == [l \in {g.order[i] : i \in 1..Len(g.order)} |->
                        (CHOOSE i \in 1..Len(g.order) : g.order[i] = l) - 1]
    IN  [nodes |-> {mapping[l] : l \in DOMAIN mapping},
         edges |-> {{mapping[l] : l \in e} : e \in g.edges}]

\* random.choice(seq): any element; IndexError on an empty sequence.
IndexError == -2
Choices(S) == IF S = {} THEN {IndexError} ELSE S

\* Mutant: the empty-graph test never succeeds.
NoNodes_Never(nodes) == FALSE

\* `if not nodes`
NoNodes(nodes) == nodes = {}

\* list.sort() on a list of integers
Sorted(s) == SortSeq(s, LAMBDA a, b : a < b)

\* [None] * len(checkpoint_sizes)
NoneList(m) == [i \in 1..m |-> None]

\* ------------------------------------------------------------ the inputs
\* Caller graphs: nodes Label(1)..Label(N) in that order, any simple edge set
\* of at most MaxEdges edges.
CallerGraphs ==
    UNION {
        LET labels == {Label(i) : i \in 1..N}
            pairs  == {{a, b} : a \in labels, b \in labels} \ {{a} : a \in labels}
        IN  {[order |-> [i \in 1..N |-> Label(i)], edges |-> E] : E \in {X \in SUBSET pairs : Cardinality(X) <= MaxEdges}}
        : N \in 0..MaxNodes }

\* The graphs of the documented scenarios: the 6-cycle, the complete graph
\* on 4 nodes, and a triangle with one pendant node hanging off its last node.
Cycle6 ==
    [order |-> [i \in 1..6 |-> Label(i)],
     edges |-> {{Label(i), Label((i % 6) + 1)} : i \in 1..6}]

K4 ==
    [order |-> [i \in 1..4 |-> Label(i)],
     edges |-> {{Label(i), Label(j)} : i \in 1..4, j \in 1..4} \ {{Label(i)} : i \in 1..4}]

Paw ==
    [order |-> [i \in 1..4 |-> Label(i)],
     edges |-> {{Label(1), Label(2)}, {Label(2), Label(3)}, {Label(1), Label(3)},
                {Label(3), Label(4)}}]

ScenarioGraphs == {Cycle6, K4, Paw}

CheckpointLists ==
    UNION {[1..m -> 1..MaxThreshold] : m \in 0..MaxCheckpoints}

\* The threshold list of the documented scenarios.
ScenarioCheckpoints == {<<1, 3, 5>>}

Engines == {"RWEB", "IRWEB", "SB", "TIES"}

Init ==
    /\ engine \in Engines
    /\ G \in CallerGraphs \cup ScenarioGraphs
    /\ max_n \in 0..MaxN
    /\ k \in (IF engine = "SB" THEN 0..MaxK ELSE {0})
    /\ checkpoint_sizes \in (IF engine = "IRWEB" THEN {<<>>} ELSE CheckpointLists \cup ScenarioCheckpoints)
    /\ G_copy = EmptyGraph
    /\ sampled_graph = EmptyGraph
    /\ start_node = NoNode
    /\ stack = <<>>
    /\ current_node = NoNode
    /\ visited = {}
    /\ walk_edges_visited = {}
    /\ queue = <<>>
    /\ neighbors = {}
    /\ neighbors_to_explore_count = 0
    /\ edges = {}
    /\ sampled_nodes = {}
    /\ checkpoint_graphs = <<>>
    /\ current_checkpoint_idx = 0
    /\ pc = "call"
    /\ result = <<>>

\* Variables no engine ever assigns, and the locals of SB's for loop.
Args == <<engine, G, max_n, k>>
ForLocals == <<neighbors, neighbors_to_explore_count>>

\* ------------------------------------------------------------------ RWEB
\* The checkpoint while loop (also lines 48-52): fills every slot
\* whose threshold the node count has reached, with a copy of g.
RECURSIVE RWEB_Checkpoints(_, _, _, _)
RWEB_Checkpoints(sizes, idx, graphs, g) ==
    IF idx < Len(sizes) /\ number_of_nodes(g) >= sizes[idx + 1]
    THEN RWEB_Checkpoints(sizes, idx + 1, [graphs EXCEPT ![idx + 1] = g], g)
    ELSE [graphs |-> graphs, idx |-> idx]

\* Finalization: every slot still None gets the final sampled graph.
RWEB_Fill(graphs, g) ==
    [i \in 1..Len(graphs) |->
        IF graphs[i] = None
        THEN (IF number_of_nodes(g) > 0 THEN g ELSE EmptyGraph)
        ELSE graphs[i]]

\* `while sampled_graph.number_of_nodes() < max_n and stack`
RWEB_LoopCond == number_of_nodes(sampled_graph) < max_n /\ stack # <<>>

\* Lines 27-33: empty source graph.
RWEB_ReturnEmpty ==
    /\ pc = "call" /\ engine = "RWEB"
    /\ NoNodes(Relabel(G).nodes)
    /\ G_copy' = Relabel(G)
    /\ result' = [i \in 1..Len(checkpoint_sizes) |-> sampled_graph]
    /\ pc' = "done"
    /\ UNCHANGED <<Args, ForLocals, checkpoint_sizes, sampled_graph, start_node, stack,
                   current_node, visited, walk_edges_visited, queue, edges, sampled_nodes,
                   checkpoint_graphs, current_checkpoint_idx>>

\* Lines 27-52: copy, start node, sort, first checkpoint check.
RWEB_Start ==
    /\ pc = "call" /\ engine = "RWEB"
    /\ ~NoNodes(Relabel(G).nodes)
    /\ G_copy' = Relabel(G)
    /\ \E s \in Choices(Relabel(G).nodes) :
        IF s = IndexError
        THEN /\ pc' = "error"
             /\ UNCHANGED <<checkpoint_sizes, sampled_graph, start_node, stack,
                            checkpoint_graphs, current_checkpoint_idx>>
        ELSE LET sg  == add_node(sampled_graph, s)
                 cps == Sorted(checkpoint_sizes)
                 cp  == RWEB_Checkpoints(cps, 0, NoneList(Len(cps)), sg)
             IN  /\ start_node' = s
                 /\ stack' = <<s>>
                 /\ sampled_graph' = sg
                 /\ checkpoint_sizes' = cps
                 /\ checkpoint_graphs' = cp.graphs
                 /\ current_checkpoint_idx' = cp.idx
                 /\ pc' = "loop"
    /\ UNCHANGED <<Args, ForLocals, current_node, visited, walk_edges_visited, queue,
                   edges, sampled_nodes,
                   result>>

\* Mutant: the walk removes the edge from the caller's graph as well, as it
\* would without the copy of line 27.
RWEB_Step_OnCallerGraph ==
    /\ pc = "loop" /\ engine = "RWEB"
    /\ RWEB_LoopCond
    /\ LET cur == stack[Len(stack)]
       IN  /\ Neighbors(G_copy, cur) # {}
           /\ \E next_node \in Neighbors(G_copy, cur) :
                LET sg == add_edge(add_node(sampled_graph, next_node), cur, next_node)
                    cp == RWEB_Checkpoints(checkpoint_sizes, current_checkpoint_idx,
                                           checkpoint_graphs, sg)
                IN  /\ G_copy' = remove_edge(G_copy, cur, next_node)
                    /\ G' = [G EXCEPT !.edges = @ \ {{G.order[cur + 1], G.order[next_node + 1]}}]
                    /\ sampled_graph' = sg
                    /\ stack' = Append(stack, next_node)
                    /\ checkpoint_graphs' = cp.graphs
                    /\ current_checkpoint_idx' = cp.idx
    /\ UNCHANGED <<engine, max_n, k, ForLocals, checkpoint_sizes, start_node, current_node,
                   visited, walk_edges_visited, queue, edges, sampled_nodes, pc, result>>

\* Lines 57-90: one iteration that moves along an edge of the working graph.
RWEB_Step ==
    /\ pc = "loop" /\ engine = "RWEB"
    /\ RWEB_LoopCond
    /\ LET cur == stack[Len(stack)]
       IN  /\ Neighbors(G_copy, cur) # {}
           /\ \E next_node \in Neighbors(G_copy, cur) :
                LET node_added_to_sample == next_node \notin sampled_graph.nodes
                    sg == add_edge(add_node(sampled_graph, next_node), cur, next_node)
                    cp == IF node_added_to_sample
                          THEN RWEB_Checkpoints(checkpoint_sizes, current_checkpoint_idx,
                                                checkpoint_graphs, sg)
                          ELSE [graphs |-> checkpoint_graphs, idx |-> current_checkpoint_idx]
                IN  /\ G_copy' = remove_edge(G_copy, cur, next_node)
                    /\ sampled_graph' = sg
                    /\ stack' = Append(stack, next_node)
                    /\ checkpoint_graphs' = cp.graphs
                    /\ current_checkpoint_idx' = cp.idx
    /\ UNCHANGED <<Args, ForLocals, checkpoint_sizes, start_node, current_node, visited,
                   walk_edges_visited, queue, edges, sampled_nodes, pc, result>>

\* Lines 57-61, 91-93: one iteration that backtracks.
RWEB_Backtrack ==
    /\ pc = "loop" /\ engine = "RWEB"
    /\ RWEB_LoopCond
    /\ Neighbors(G_copy, stack[Len(stack)]) = {}
    /\ stack' = SubSeq(stack, 1, Len(stack) - 1)
    /\ UNCHANGED <<Args, ForLocals, checkpoint_sizes, G_copy, sampled_graph, start_node,
                   current_node, visited, walk_edges_visited, queue, edges, sampled_nodes,
                   checkpoint_graphs, current_checkpoint_idx, pc, result>>

\* Lines 95-106: the loop is over; fill the unreached slots and return.
RWEB_Return ==
    /\ pc = "loop" /\ engine = "RWEB"
    /\ ~RWEB_LoopCond
    /\ checkpoint_graphs' = RWEB_Fill(checkpoint_graphs, sampled_graph)
    /\ result' = checkpoint_graphs'
    /\ pc' = "done"
    /\ UNCHANGED <<Args, ForLocals, checkpoint_sizes, G_copy, sampled_graph, start_node,
                   stack, current_node, visited, walk_edges_visited, queue,
                   edges, sampled_nodes,
                   current_checkpoint_idx>>

\* ----------------------------------------------------------------- IRWEB
\* Mutant: joins every pair of the closed neighbourhood.
IRWEB_Induce_Clique(g, sg, node) ==
    LET nodes_in_neighborhood == {node} \cup Neighbors(g, node)
    IN  [nodes |-> sg.nodes \cup nodes_in_neighborhood,
         edges |-> sg.edges \cup ({{a, b} : a \in nodes_in_neighborhood,
                                            b \in nodes_in_neighborhood}
                                  \ {{a} : a \in nodes_in_neighborhood})]

\* Mutant: adds only the star of edges from node to its neighbours.
IRWEB_Induce_Star(g, sg, node) ==
    [nodes |-> sg.nodes \cup {node} \cup Neighbors(g, node),
     edges |-> sg.edges \cup {{node, nb} : nb \in Neighbors(g, node)}]

\* Local induction: the induced subgraph of g on {node} and its neighbours
\* is added to the sample (add_nodes_from / add_edges_from of the view).
IRWEB_Induce(g, sg, node) ==
    LET nodes_in_neighborhood == {node} \cup Neighbors(g, node)
        view == subgraph(g, nodes_in_neighborhood)
    IN  [nodes |-> sg.nodes \cup view.nodes, edges |-> sg.edges \cup view.edges]

\* Mutant: the walked-edge marks are ignored when the moves are listed.
IRWEB_Available_IgnoresWalked(g, node, walked) == Neighbors(g, node)

\* Neighbours of node reachable by an edge the walk has not used yet.
IRWEB_Available(g, node, walked) ==
    {nb \in Neighbors(g, node) :
        <<node, nb>> \notin walked /\ <<nb, node>> \notin walked}

\* `while len(visited) < n and stack`
IRWEB_LoopCond == Cardinality(visited) < max_n /\ stack # <<>>

\* Lines 125-130: empty source graph.
IRWEB_ReturnEmpty ==
    /\ pc = "call" /\ engine = "IRWEB"
    /\ NoNodes(Relabel(G).nodes)
    /\ G_copy' = Relabel(G)
    /\ result' = <<sampled_graph>>
    /\ pc' = "done"
    /\ UNCHANGED <<Args, ForLocals, checkpoint_sizes, sampled_graph, start_node, stack,
                   current_node, visited, walk_edges_visited, queue, edges, sampled_nodes,
                   checkpoint_graphs, current_checkpoint_idx>>

\* Lines 125-149: copy, start node, initial local induction.
IRWEB_Start ==
    /\ pc = "call" /\ engine = "IRWEB"
    /\ ~NoNodes(Relabel(G).nodes)
    /\ G_copy' = Relabel(G)
    /\ \E s \in Choices(Relabel(G).nodes) :
        IF s = IndexError
        THEN /\ pc' = "error"
             /\ UNCHANGED <<sampled_graph, start_node, stack, current_node, visited>>
        ELSE /\ start_node' = s
             /\ current_node' = s
             /\ stack' = <<s>>
             /\ sampled_graph' = IRWEB_Induce(Relabel(G), sampled_graph, s)
             /\ visited' = {s}
             /\ pc' = "loop"
    /\ UNCHANGED <<Args, ForLocals, checkpoint_sizes, walk_edges_visited, queue, edges, sampled_nodes,
                   checkpoint_graphs, current_checkpoint_idx, result>>

\* Lines 151-184: the walk moves to a node it has not visited.
IRWEB_Visit ==
    /\ pc = "loop" /\ engine = "IRWEB"
    /\ IRWEB_LoopCond
    /\ \E next_node \in IRWEB_Available(G_copy, current_node, walk_edges_visited) :
        /\ next_node \notin visited
        /\ walk_edges_visited' = walk_edges_visited
                \cup {<<current_node, next_node>>, <<next_node, current_node>>}
        /\ visited' = visited \cup {next_node}
        /\ stack' = Append(stack, next_node)
        /\ current_node' = next_node
        /\ sampled_graph' = IRWEB_Induce(G_copy, sampled_graph, next_node)
    /\ UNCHANGED <<Args, ForLocals, checkpoint_sizes, G_copy, start_node, queue, edges, sampled_nodes,
                   checkpoint_graphs, current_checkpoint_idx, pc, result>>

\* Mutant: a move onto a visited node does not mark the edge as walked.
IRWEB_Revisit_Unmarked ==
    /\ pc = "loop" /\ engine = "IRWEB"
    /\ IRWEB_LoopCond
    /\ \E next_node \in IRWEB_Available(G_copy, current_node, walk_edges_visited) :
        /\ next_node \in visited
        /\ current_node' = next_node
    /\ UNCHANGED <<Args, ForLocals, checkpoint_sizes, G_copy, sampled_graph, start_node,
                   stack, visited, walk_edges_visited, queue, edges, sampled_nodes,
                   checkpoint_graphs, current_checkpoint_idx, pc, result>>

\* Lines 151-168, 185-188: the walk moves to a node it visited before.
IRWEB_Revisit ==
    /\ pc = "loop" /\ engine = "IRWEB"
    /\ IRWEB_LoopCond
    /\ \E next_node \in IRWEB_Available(G_copy, current_node, walk_edges_visited) :
        /\ next_node \in visited
        /\ walk_edges_visited' = walk_edges_visited
                \cup {<<current_node, next_node>>, <<next_node, current_node>>}
        /\ current_node' = next_node
    /\ UNCHANGED <<Args, ForLocals, checkpoint_sizes, G_copy, sampled_graph, start_node,
                   stack, visited, queue, edges, sampled_nodes, checkpoint_graphs,
                   current_checkpoint_idx, pc, result>>

\* Lines 151-162, 189-194: no unused edge at current_node; pop the stack.
IRWEB_Backtrack ==
    /\ pc = "loop" /\ engine = "IRWEB"
    /\ IRWEB_LoopCond
    /\ IRWEB_Available(G_copy, current_node, walk_edges_visited) = {}
    /\ stack' = SubSeq(stack, 1, Len(stack) - 1)
    /\ current_node' = IF stack' # <<>> THEN stack'[Len(stack')] ELSE current_node
    /\ UNCHANGED <<Args, ForLocals, checkpoint_sizes, G_copy, sampled_graph, start_node,
                   visited, walk_edges_visited, queue, edges, sampled_nodes,
                   checkpoint_graphs, current_checkpoint_idx, pc, result>>

\* Line 196: the loop is over; return the sampled graph.
IRWEB_Return ==
    /\ pc = "loop" /\ engine = "IRWEB"
    /\ ~IRWEB_LoopCond
    /\ result' = <<sampled_graph>>
    /\ pc' = "done"
    /\ UNCHANGED <<Args, ForLocals, checkpoint_sizes, G_copy, sampled_graph, start_node,
                   stack, current_node, visited, walk_edges_visited, queue,
                   edges, sampled_nodes,
                   checkpoint_graphs, current_checkpoint_idx>>

\* -------------------------------------------------------------------- SB
\* The checkpoint while loop (also lines 242-246).
RECURSIVE SB_Checkpoints(_, _, _, _)
SB_Checkpoints(sizes, idx, graphs, g) ==
    IF idx < Len(sizes) /\ number_of_nodes(g) >= sizes[idx + 1]
    THEN SB_Checkpoints(sizes, idx + 1, [graphs EXCEPT ![idx + 1] = g], g)
    ELSE [graphs |-> graphs, idx |-> idx]

\* Mutant: the two branches of the finalization are swapped.
SB_Fill_Swapped(graphs, g) ==
    [i \in 1..Len(graphs) |->
        IF graphs[i] = None
        THEN (IF number_of_nodes(g) > 0 THEN EmptyGraph ELSE g)
        ELSE graphs[i]]

\* Finalization: every slot still None gets the final sampled graph.
SB_Fill(graphs, g) ==
    [i \in 1..Len(graphs) |->
        IF graphs[i] = None
        THEN (IF number_of_nodes(g) > 0 THEN g ELSE EmptyGraph)
        ELSE graphs[i]]

\* `while queue and sampled_graph.number_of_nodes() < max_n`
SB_LoopCond == queue # <<>> /\ number_of_nodes(sampled_graph) < max_n

\* Mutant: the fan-out cap is ignored, every expansion stops at one child.
SB_FanOutReached_Always(count, cap) == TRUE

\* Mutant: the fan-out test is off by one.
SB_FanOutReached_OffByOne(count, cap) == count >= cap - 1

\* `if neighbors_to_explore_count >= k: break`, tested before the checkpoint check
SB_FanOutReached(count, cap) == count >= cap

\* Lines 221-226: empty source graph.
SB_ReturnEmpty ==
    /\ pc = "call" /\ engine = "SB"
    /\ NoNodes(Relabel(G).nodes)
    /\ G_copy' = Relabel(G)
    /\ result' = [i \in 1..Len(checkpoint_sizes) |-> sampled_graph]
    /\ pc' = "done"
    /\ UNCHANGED <<Args, ForLocals, checkpoint_sizes, sampled_graph, start_node, stack,
                   current_node, visited, walk_edges_visited, queue, edges, sampled_nodes,
                   checkpoint_graphs, current_checkpoint_idx>>

\* Lines 221-246: copy, sort, start node, first checkpoint check.
SB_Start ==
    /\ pc = "call" /\ engine = "SB"
    /\ ~NoNodes(Relabel(G).nodes)
    /\ G_copy' = Relabel(G)
    /\ checkpoint_sizes' = Sorted(checkpoint_sizes)
    /\ \E s \in Choices(Relabel(G).nodes) :
        IF s = IndexError
        THEN /\ pc' = "error"
             /\ checkpoint_graphs' = NoneList(Len(checkpoint_sizes))
             /\ UNCHANGED <<sampled_graph, start_node, visited, queue,
                            current_checkpoint_idx>>
        ELSE LET sg == add_node(sampled_graph, s)
                 cp == SB_Checkpoints(checkpoint_sizes', 0,
                                      NoneList(Len(checkpoint_sizes)), sg)
             IN  /\ start_node' = s
                 /\ visited' = {s}
                 /\ sampled_graph' = sg
                 /\ queue' = <<s>>
                 /\ checkpoint_graphs' = cp.graphs
                 /\ current_checkpoint_idx' = cp.idx
                 /\ pc' = "loop"
    /\ UNCHANGED <<Args, ForLocals, stack, current_node, walk_edges_visited, edges, sampled_nodes, result>>

\* `for neighbor in neighbors`: with neighbours left the for loop goes on,
\* otherwise control is back at the while test.
SB_AfterNeighbor(rest) == IF rest = {} THEN "loop" ELSE "for"

\* Lines 248-254: dequeue a node and shuffle its neighbours.
SB_Dequeue ==
    /\ pc = "loop" /\ engine = "SB"
    /\ SB_LoopCond
    /\ current_node' = Head(queue)
    /\ queue' = Tail(queue)
    /\ neighbors' = Neighbors(G_copy, Head(queue))
    /\ neighbors_to_explore_count' = 0
    /\ pc' = SB_AfterNeighbor(neighbors')
    /\ UNCHANGED <<Args, checkpoint_sizes, G_copy, sampled_graph, start_node,
                   stack, visited, walk_edges_visited, edges, sampled_nodes,
                   checkpoint_graphs, current_checkpoint_idx, result>>

\* Lines 255-278: the next shuffled neighbour is unvisited and is added.
SB_AddNeighbor ==
    /\ pc = "for" /\ engine = "SB"
    /\ \E neighbor \in neighbors :
        /\ neighbor \notin visited
        /\ number_of_nodes(sampled_graph) < max_n
        /\ LET sg == add_edge(add_node(sampled_graph, neighbor), current_node, neighbor)
               count == neighbors_to_explore_count + 1
               cp == SB_Checkpoints(checkpoint_sizes, current_checkpoint_idx,
                                    checkpoint_graphs, sg)
           IN  /\ visited' = visited \cup {neighbor}
               /\ sampled_graph' = sg
               /\ queue' = Append(queue, neighbor)
               /\ neighbors_to_explore_count' = count
               /\ IF SB_FanOutReached(count, k)
                  THEN /\ neighbors' = {}
                       /\ pc' = "loop"
                       /\ UNCHANGED <<checkpoint_graphs, current_checkpoint_idx>>
                  ELSE /\ neighbors' = neighbors \ {neighbor}
                       /\ pc' = SB_AfterNeighbor(neighbors')
                       /\ checkpoint_graphs' = cp.graphs
                       /\ current_checkpoint_idx' = cp.idx
    /\ UNCHANGED <<Args, checkpoint_sizes, G_copy, start_node, stack,
                   current_node, walk_edges_visited, edges, sampled_nodes, result>>

\* Lines 255-260: the next shuffled neighbour is unvisited but the sample is full.
SB_SizeBreak ==
    /\ pc = "for" /\ engine = "SB"
    /\ \E neighbor \in neighbors :
        /\ neighbor \notin visited
        /\ number_of_nodes(sampled_graph) >= max_n
    /\ neighbors' = {}
    /\ pc' = "loop"
    /\ UNCHANGED <<Args, checkpoint_sizes, G_copy, sampled_graph, start_node,
                   stack, current_node, visited, walk_edges_visited, queue,
                   neighbors_to_explore_count, edges, sampled_nodes,
                   checkpoint_graphs, current_checkpoint_idx, result>>

\* Lines 255-257, 279-281: the next shuffled neighbour was visited before.
SB_AddEdge ==
    /\ pc = "for" /\ engine = "SB"
    /\ \E neighbor \in neighbors :
        /\ neighbor \in visited
        /\ sampled_graph' =
             IF neighbor \in sampled_graph.nodes
                /\ {current_node, neighbor} \notin sampled_graph.edges
             THEN add_edge(sampled_graph, current_node, neighbor)
             ELSE sampled_graph
        /\ neighbors' = neighbors \ {neighbor}
        /\ pc' = SB_AfterNeighbor(neighbors')
    /\ UNCHANGED <<Args, checkpoint_sizes, G_copy, start_node, stack,
                   current_node, visited, walk_edges_visited, queue,
                   neighbors_to_explore_count, edges, sampled_nodes,
                   checkpoint_graphs, current_checkpoint_idx, result>>

\* Lines 283-290: the loop is over; fill the unreached slots and return.
SB_Return ==
    /\ pc = "loop" /\ engine = "SB"
    /\ ~SB_LoopCond
    /\ checkpoint_graphs' = SB_Fill(checkpoint_graphs, sampled_graph)
    /\ result' = checkpoint_graphs'
    /\ pc' = "done"
    /\ UNCHANGED <<Args, ForLocals, checkpoint_sizes, G_copy, sampled_graph, start_node,
                   stack, current_node, visited, walk_edges_visited, queue,
                   edges, sampled_nodes,
                   current_checkpoint_idx>>

\* ------------------------------------------------------------------ TIES
\* list(G_copy.edges()): each edge once, as (u, v) with u the endpoint that
\* comes first in the node order, which after relabeling is the smaller one.
EdgeList(g) ==
    {<<u, v>> \in g.nodes \X g.nodes : u < v /\ {u, v} \in g.edges}

\* Mutant: a slot gets the working graph, not the subgraph induced on the
\* selection.
RECURSIVE TIES_Checkpoints_WholeGraph(_, _, _, _, _)
TIES_Checkpoints_WholeGraph(sizes, idx, graphs, g, selected) ==
    IF idx < Len(sizes) /\ Cardinality(selected) >= sizes[idx + 1]
    THEN TIES_Checkpoints_WholeGraph(sizes, idx + 1,
                                     [graphs EXCEPT ![idx + 1] = g], g, selected)
    ELSE [graphs |-> graphs, idx |-> idx]

\* The checkpoint while loop: a slot gets the subgraph induced on the nodes
\* selected so far.
RECURSIVE TIES_Checkpoints(_, _, _, _, _)
TIES_Checkpoints(sizes, idx, graphs, g, selected) ==
    IF idx < Len(sizes) /\ Cardinality(selected) >= sizes[idx + 1]
    THEN TIES_Checkpoints(sizes, idx + 1,
                          [graphs EXCEPT ![idx + 1] = subgraph(g, selected)],
                          g, selected)
    ELSE [graphs |-> graphs, idx |-> idx]

\* Mutant: the finalization forgets the induction and copies the working graph.
TIES_Fill_WholeGraph(graphs, g, selected) ==
    [i \in 1..Len(graphs) |->
        IF graphs[i] = None
        THEN (IF selected # {} THEN g ELSE EmptyGraph)
        ELSE graphs[i]]

\* Finalization: every slot still None gets the final induced subgraph.
TIES_Fill(graphs, g, selected) ==
    [i \in 1..Len(graphs) |->
        IF graphs[i] = None
        THEN (IF selected # {} THEN subgraph(g, selected) ELSE EmptyGraph)
        ELSE graphs[i]]

\* Mutant: the second endpoint is added without the size test.
TIES_Select_NoCap(selected, u, v, cap) == selected \cup {u, v}

\* Mutant: an edge whose endpoints do not both fit is skipped entirely.
TIES_Select_SkipEdge(selected, u, v, cap) ==
    IF Cardinality(selected \cup {u, v}) > cap THEN selected ELSE selected \cup {u, v}

\* Mutant: the second endpoint is the one added first.
TIES_Select_SecondFirst(selected, u, v, cap) ==
    LET with_v == selected \cup {v}
    IN  IF u \notin with_v /\ Cardinality(with_v) < cap
        THEN with_v \cup {u}
        ELSE with_v

\* Lines 338-342: the endpoints of the scanned edge join the selection.
TIES_Select(selected, u, v, cap) ==
    LET with_u == selected \cup {u}
    IN  IF v \notin with_u /\ Cardinality(with_u) < cap
        THEN with_u \cup {v}
        ELSE with_u

\* Lines 316-326: copy, shuffled edge list, sort.
TIES_Start ==
    /\ pc = "call" /\ engine = "TIES"
    /\ G_copy' = Relabel(G)
    /\ sampled_nodes' = {}
    /\ edges' = EdgeList(Relabel(G))
    /\ checkpoint_graphs' = NoneList(Len(checkpoint_sizes))
    /\ current_checkpoint_idx' = 0
    /\ checkpoint_sizes' = Sorted(checkpoint_sizes)
    /\ pc' = "loop"
    /\ UNCHANGED <<Args, ForLocals, sampled_graph, start_node, stack, current_node,
                   visited, walk_edges_visited, queue, result>>

\* Lines 329-358: one iteration of the scan over the shuffled edges.
TIES_Edge ==
    /\ pc = "loop" /\ engine = "TIES"
    /\ edges # {}
    /\ Cardinality(sampled_nodes) < max_n
    /\ \E e \in edges :
        LET selected == TIES_Select(sampled_nodes, e[1], e[2], max_n)
            cp == IF Cardinality(selected) = Cardinality(sampled_nodes)
                  THEN [graphs |-> checkpoint_graphs, idx |-> current_checkpoint_idx]
                  ELSE TIES_Checkpoints(checkpoint_sizes, current_checkpoint_idx,
                                        checkpoint_graphs, G_copy, selected)
        IN  /\ edges' = edges \ {e}
            /\ sampled_nodes' = selected
            /\ checkpoint_graphs' = cp.graphs
            /\ current_checkpoint_idx' = cp.idx
    /\ UNCHANGED <<Args, ForLocals, checkpoint_sizes, G_copy, sampled_graph, start_node,
                   stack, current_node, visited, walk_edges_visited, queue,
                   pc, result>>

\* Lines 329-332, 360-373: the scan is over; fill the unreached slots and return.
TIES_Return ==
    /\ pc = "loop" /\ engine = "TIES"
    /\ (edges = {} \/ Cardinality(sampled_nodes) >= max_n)
    /\ checkpoint_graphs' = TIES_Fill(checkpoint_graphs, G_copy, sampled_nodes)
    /\ result' = checkpoint_graphs'
    /\ pc' = "done"
    /\ UNCHANGED <<Args, ForLocals, checkpoint_sizes, G_copy, sampled_graph, start_node,
                   stack, current_node, visited, walk_edges_visited, queue,
                   edges, sampled_nodes,
                   current_checkpoint_idx>>

\* ------------------------------------------------------ the specification
Next ==
    \/ RWEB_ReturnEmpty
    \/ RWEB_Start
    \/ RWEB_Step
    \/ RWEB_Backtrack
    \/ RWEB_Return
    \/ IRWEB_ReturnEmpty
    \/ IRWEB_Start
    \/ IRWEB_Visit
    \/ IRWEB_Revisit
    \/ IRWEB_Backtrack
    \/ IRWEB_Return
    \/ SB_ReturnEmpty
    \/ SB_Start
    \/ SB_Dequeue
    \/ SB_AddNeighbor
    \/ SB_SizeBreak
    \/ SB_AddEdge
    \/ SB_Return
    \/ TIES_Start
    \/ TIES_Edge
    \/ TIES_Return

Spec == Init /\ [][Next]_vars

\* The functions are single-threaded and synchronous: as long as the called
\* function has a next statement, the interpreter executes it.
FairSpec == Spec /\ WF_vars(Next)

\* ------------------------------------------------ notions the claims use
\* The relabeled source graph: what the engines read through their copy.
Source == Relabel(G)

\* Number of sampled nodes: the sampled graph's nodes; for TIES the selection.
SampleSize ==
    IF engine = "TIES" THEN Cardinality(sampled_nodes)
    ELSE number_of_nodes(sampled_graph)

\* The final sample as a graph; for TIES the subgraph induced on the selection.
FinalGraph ==
    IF engine = "TIES" THEN subgraph(G_copy, sampled_nodes) ELSE sampled_graph

Checkpointed == engine \in {"RWEB", "SB", "TIES"}

\* Nodes joined to a node of S by a path of g.
RECURSIVE Reach(_, _)
Reach(g, S) ==
    LET T == S \cup UNION {Neighbors(g, n) : n \in S}
    IN  IF T = S THEN S ELSE Reach(g, T)

Component(g, n) == Reach(g, {n})

Degree(g, n) == Cardinality(Neighbors(g, n))

\* ---------------------------------------------------------------- claims
\* C1: for RWEB, SB and TIES called with max_n >= 1, in every state of the
\* run the number of sampled nodes is at most max_n, and every returned
\* snapshot has at most max_n nodes.
C1_SampleAtMostMaxN ==
    (Checkpointed /\ max_n >= 1) =>
        /\ SampleSize <= max_n
        /\ \A i \in DOMAIN checkpoint_graphs :
              checkpoint_graphs[i] # None => number_of_nodes(checkpoint_graphs[i]) <= max_n
        /\ \A i \in DOMAIN result : number_of_nodes(result[i]) <= max_n

\* C1 witness: TIES returned with the selection full while the source has
\* more nodes and an unscanned edge is left.
C1_Witness ==
    /\ engine = "TIES" /\ pc = "done" /\ max_n = 2
    /\ Cardinality(sampled_nodes) = 2
    /\ Cardinality(Source.nodes) = 3
    /\ edges # {}
    /\ Len(result) = 2

C3_CheckpointMonotonicity ==
    (pc = "done" /\ Checkpointed) =>
        \A i, j \in DOMAIN result :
            (/\ checkpoint_sizes[i] < checkpoint_sizes[j]
             /\ checkpoint_sizes[j] <= SampleSize)
                => result[i].nodes \subseteq result[j].nodes

\* C3 witness: two reached thresholds whose returned snapshots differ.
C3_Witness ==
    /\ pc = "done" /\ Checkpointed
    /\ Len(result) = 2
    /\ checkpoint_sizes[1] < checkpoint_sizes[2]
    /\ checkpoint_sizes[2] <= SampleSize
    /\ result[1].nodes # result[2].nodes

\* C4: for RWEB, SB and TIES the returned list has one graph per threshold,
\* and every slot whose threshold is greater than the final number of
\* sampled nodes holds the final sample (the empty graph if nothing was
\* sampled).
C4_UnreachedSlotsHoldFinalSample ==
    (pc = "done" /\ Checkpointed) =>
        /\ Len(result) = Len(checkpoint_sizes)
        /\ \A i \in DOMAIN result :
              checkpoint_sizes[i] > SampleSize =>
                  result[i] = (IF SampleSize = 0 THEN EmptyGraph ELSE FinalGraph)

\* C4 witness: TIES returned a list with a reached and an unreached
\* threshold, and the source has a node outside the final selection.
C4_Witness ==
    /\ pc = "done" /\ engine = "TIES"
    /\ Len(result) = 2
    /\ checkpoint_sizes[1] <= SampleSize
    /\ checkpoint_sizes[2] > SampleSize
    /\ SampleSize > 0
    /\ sampled_nodes # Source.nodes

\* C5: RWEB with max_n >= 1 on a start node whose component in the source
\* has at least max_n nodes: the stack does not empty before the sample has
\* max_n nodes, and the walk ends with exactly max_n sampled nodes.
C5_RWEBReachesMaxN ==
    (/\ engine = "RWEB" /\ max_n >= 1 /\ pc \in {"loop", "done"}
     /\ start_node \in Source.nodes
     /\ Cardinality(Component(Source, start_node)) >= max_n) =>
        /\ (pc = "loop" /\ number_of_nodes(sampled_graph) < max_n) => stack # <<>>
        /\ pc = "done" => number_of_nodes(sampled_graph) = max_n

\* C5 witness: RWEB reached max_n = 3 nodes after backtracking (the stack is
\* shorter than the number of moves made).
C5_Witness ==
    /\ engine = "RWEB" /\ pc = "done" /\ max_n = 3
    /\ number_of_nodes(sampled_graph) = 3
    /\ Len(stack) = 2

\* C6 (as claimed): SB with max_n >= 1 and k >= 1 on a source graph with at
\* least max_n nodes ends with exactly max_n sampled nodes.
C6_SBReachesMaxNOnLargeGraph ==
    (/\ engine = "SB" /\ pc = "done" /\ max_n >= 1 /\ k >= 1
     /\ Cardinality(Source.nodes) >= max_n) =>
        number_of_nodes(sampled_graph) = max_n

\* C6 (amended): SB with max_n >= 1 and k >= 1 ends with exactly max_n
\* sampled nodes whenever the component of the start node in the source has
\* at least max_n nodes and no source node has more than k neighbours.
C6_SBReachesMaxNInComponent ==
    (/\ engine = "SB" /\ pc = "done" /\ max_n >= 1 /\ k >= 1
     /\ start_node \in Source.nodes
     /\ Cardinality(Component(Source, start_node)) >= max_n
     /\ \A n \in Source.nodes : Degree(Source, n) <= k) =>
        number_of_nodes(sampled_graph) = max_n

\* C6 witness: SB filled a sample of 3 from a start node with k = 2
\* neighbours, so the fan-out cap was reached on the way.
C6_Witness ==
    /\ engine = "SB" /\ pc = "done" /\ max_n = 3 /\ k = 2
    /\ Degree(Source, start_node) = 2
    /\ number_of_nodes(sampled_graph) = 3

\* C7 (as claimed): TIES with max_n >= 1 on a source graph with at least
\* max_n nodes and a component of at least max_n nodes (a graph without
\* edges and max_n = 1 included) ends with exactly max_n selected nodes.
C7_TIESReachesTarget ==
    (/\ engine = "TIES" /\ pc = "done" /\ max_n >= 1
     /\ Cardinality(Source.nodes) >= max_n
     /\ \E n \in Source.nodes : Cardinality(Component(Source, n)) >= max_n) =>
        Cardinality(sampled_nodes) = max_n

\* C7 (amended): TIES with max_n >= 1 on a source graph with at least one
\* edge and a component of at least max_n nodes ends with exactly max_n
\* selected nodes; on a source graph without edges it selects no node.
C7_TIESReachesTargetWithEdges ==
    (engine = "TIES" /\ pc = "done" /\ max_n >= 1) =>
        /\ (/\ Source.edges # {}
            /\ \E n \in Source.nodes : Cardinality(Component(Source, n)) >= max_n)
               => Cardinality(sampled_nodes) = max_n
        /\ Source.edges = {} => sampled_nodes = {}

\* C7 witness: TIES selected exactly max_n = 3 nodes of a connected source.
C7_Witness ==
    /\ engine = "TIES" /\ pc = "done" /\ max_n = 3
    /\ Cardinality(sampled_nodes) = 3
    /\ Cardinality(Source.edges) = 2

\* C8: in every state and in every returned graph of the four engines, the
\* sampled nodes are source nodes, the sampled edges are source edges, and
\* no edge is a self-loop.
IsSubgraphOf(g, src) ==
    /\ g.nodes \subseteq src.nodes
    /\ g.edges \subseteq src.edges
    /\ \A e \in g.edges : Cardinality(e) = 2 /\ e \subseteq g.nodes

\* Every graph the run holds or has returned.
SampleGraphs ==
    ({sampled_graph} \cup {checkpoint_graphs[i] : i \in DOMAIN checkpoint_graphs}
                    \cup {result[i] : i \in DOMAIN result}) \ {None}

C8_SamplesAreSubgraphsOfSource ==
    LET src == Source
    IN  /\ sampled_nodes \subseteq src.nodes
        /\ \A g \in SampleGraphs : IsSubgraphOf(g, src)

\* C8 witness: IRWEB returned a triangle after visiting the start node
\* only, the edge between its two neighbours included.
C8_Witness ==
    /\ engine = "IRWEB" /\ pc = "done"
    /\ Cardinality(visited) = 1
    /\ Cardinality(result[1].edges) = 3

\* C9: IRWEB.  For every node v the walk visited, the sample holds every
\* source neighbour of v, the edge from v to it, and every source edge
\* between members of the closed neighbourhood of v; so does the returned
\* graph.
InducedAround(g, v, src) ==
    LET closed == {v} \cup Neighbors(src, v)
    IN  /\ closed \subseteq g.nodes
        /\ \A nb \in Neighbors(src, v) : {v, nb} \in g.edges
        /\ \A e \in src.edges : e \subseteq closed => e \in g.edges

C9_IRWEBLocalInduction ==
    engine = "IRWEB" =>
        LET src == Source
        IN  /\ \A v \in visited : InducedAround(sampled_graph, v, src)
            /\ (pc = "done" /\ Len(result) = 1) =>
                  \A v \in visited : InducedAround(result[1], v, src)

\* C9 witness: IRWEB returned after visiting a node whose two neighbours
\* are adjacent, without having visited them.
C9_Witness ==
    /\ engine = "IRWEB" /\ pc = "done"
    /\ \E v \in visited :
          /\ Neighbors(Source, v) \cap visited = {}
          /\ \E a, b \in Neighbors(Source, v) : {a, b} \in Source.edges

\* C10: on a source graph without nodes no engine reaches an error; RWEB, SB
\* and TIES return one empty graph per threshold and IRWEB one empty graph.
C10_EmptyGraphReturnsEmptyGraphs ==
    Len(G.order) = 0 =>
        /\ pc # "error"
        /\ pc = "done" =>
              /\ Len(result) = (IF engine = "IRWEB" THEN 1 ELSE Len(checkpoint_sizes))
              /\ \A i \in DOMAIN result : result[i] = EmptyGraph

\* C10 witness: SB returned two graphs for an empty source graph.
C10_Witness ==
    /\ Len(G.order) = 0 /\ pc = "done" /\ engine = "SB"
    /\ Len(checkpoint_sizes) = 2
    /\ result = <<EmptyGraph, EmptyGraph>>

\* C11 (as claimed): RWEB, SB and TIES called with max_n <= 0, or SB called
\* with k <= 0, end in an error before any node is sampled: no node is ever
\* sampled or selected and the call never returns a list.
C11_InvalidParametersFailFast ==
    (Checkpointed /\ (max_n <= 0 \/ (engine = "SB" /\ k <= 0))) =>
        /\ SampleSize = 0
        /\ pc # "done"

\* C12: no engine changes the caller's graph: every step of every engine
\* leaves G as it was, the steps of RWEB that remove an edge from the working
\* copy included.
C12_CallerGraphUnchanged == [][G' = G]_vars

\* C12 witness: RWEB returned after removing edges from its working copy.
C12_Witness ==
    /\ engine = "RWEB" /\ pc = "done"
    /\ G_copy.edges # Source.edges
    /\ Cardinality(Source.edges) = 3

\* C13: SB first expansion.  For SB with max_n >= 1, whenever
\* max_n - 1 <= k and max_n - 1 <= degree(start), the final sample is the
\* start node plus exactly max_n - 1 of its source neighbours, with exactly
\* the edges from the start node to them; on the 6-cycle with max_n = 3,
\* k = 2 and start node 0 it has nodes {0, 1, 5} and edges (0,1), (0,5).
C13_SBFirstExpansion ==
    (/\ engine = "SB" /\ pc = "done" /\ max_n >= 1
     /\ start_node # NoNode
     /\ max_n - 1 <= k) =>
        LET src    == Source
            others == sampled_graph.nodes \ {start_node}
        IN  max_n - 1 <= Degree(src, start_node) =>
                /\ start_node \in sampled_graph.nodes
                /\ others \subseteq Neighbors(src, start_node)
                /\ Cardinality(others) = max_n - 1
                /\ sampled_graph.edges = {{start_node, m} : m \in others}
                /\ (G = Cycle6 /\ max_n = 3 /\ k = 2 /\ start_node = 0) =>
                      /\ sampled_graph.nodes = {0, 1, 5}
                      /\ sampled_graph.edges = {{0, 1}, {0, 5}}

\* C13 witness: the run of the 6-cycle scenario from start node 0.
C13_Witness ==
    /\ engine = "SB" /\ pc = "done" /\ G = Cycle6
    /\ max_n = 3 /\ k = 2 /\ start_node = 0
    /\ sampled_graph.nodes = {0, 1, 5}

\* C14: TIES on a source graph without isolated node, called with max_n equal
\* to its number of nodes, selects every node, and every slot whose threshold
\* is at least that number holds the whole source graph; on K4 with
\* max_n = 4 that is 4 nodes and 6 edges.
C14_TIESReturnsWholeGraph ==
    (engine = "TIES" /\ pc = "done") =>
        LET src == Source
        IN  (/\ max_n = Cardinality(src.nodes)
             /\ \A n \in src.nodes : Degree(src, n) >= 1) =>
                /\ sampled_nodes = src.nodes
                /\ FinalGraph = src
                /\ \A i \in DOMAIN result :
                      checkpoint_sizes[i] >= max_n => result[i] = src

\* C14 witness: TIES on K4 with max_n = 4 returned 4 nodes and 6 edges in
\* the slot of threshold 5.
C14_Witness ==
    /\ engine = "TIES" /\ pc = "done" /\ G = K4 /\ max_n = 4
    /\ checkpoint_sizes = <<1, 3, 5>>
    /\ Cardinality(result[3].nodes) = 4
    /\ Cardinality(result[3].edges) = 6
    /\ Cardinality(result[1].nodes) = 2

\* C15 (as claimed): IRWEB with n >= 1 stops only when the number of visited
\* nodes equals n, or when the stack is empty and no node the walk visited
\* has a source edge the walk has not used.
C15_IRWEBStopsOnlyWhenExhausted ==
    (engine = "IRWEB" /\ pc = "done" /\ max_n >= 1 /\ start_node # NoNode) =>
        \/ Cardinality(visited) = max_n
        \/ /\ stack = <<>>
           /\ \A v \in visited :
                 IRWEB_Available(G_copy, v, walk_edges_visited) = {}

\* C16 (as claimed): when TIES scans an edge whose two endpoints are both
\* unselected and only one more node fits under the cap, the edge is skipped
\* entirely; TIES never selects exactly one endpoint of an edge whose two
\* endpoints were both unselected when it was scanned.
C16_TIESSkipsEdgeAtCap ==
    [][(engine = "TIES" /\ pc = "loop" /\ edges' # edges) =>
          \A e \in edges \ edges' :
              (e[1] \notin sampled_nodes /\ e[2] \notin sampled_nodes) =>
                  /\ Cardinality(sampled_nodes) = max_n - 1
                        => sampled_nodes' = sampled_nodes
                  /\ Cardinality({e[1], e[2]} \cap sampled_nodes') # 1]_vars

\* C16 (amended): when TIES scans an edge (u, v) whose two endpoints are
\* both unselected, it selects u and v if at least two more nodes fit under
\* the cap, and u alone, without v, if only one more node fits.
C16_TIESSelectsFirstEndpointAtCap ==
    [][(engine = "TIES" /\ pc = "loop" /\ edges' # edges) =>
          \A e \in edges \ edges' :
              (e[1] \notin sampled_nodes /\ e[2] \notin sampled_nodes) =>
                  sampled_nodes' = sampled_nodes \cup
                      (IF Cardinality(sampled_nodes) + 2 <= max_n
                       THEN {e[1], e[2]} ELSE {e[1]})]_vars

\* C16 witness: on the 6-cycle with max_n = 3, TIES selected 0 and 1 from
\* the edge (0,1) and then 3 alone from the edge (3,4).
C16_Witness ==
    /\ engine = "TIES" /\ pc = "done" /\ G = Cycle6 /\ max_n = 3
    /\ sampled_nodes = {0, 1, 3}

\* C17: termination.  Every call with valid parameters (max_n >= 1, and
\* k >= 1 for SB) reaches its return statement; no run reaches an error; and
\* every iteration of the RWEB and IRWEB loops either uses up an unused edge
\* (removed from the working graph, or marked as walked) or pops the stack.
ValidParameters == max_n >= 1 /\ (engine = "SB" => k >= 1)

C17_EveryEngineTerminates ==
    /\ ValidParameters => <>(pc = "done")
    /\ [](ValidParameters => pc # "error")
    /\ [][(pc = "loop" /\ pc' = "loop" /\ engine \in {"RWEB", "IRWEB"}) =>
            \/ Len(stack') < Len(stack)
            \/ /\ engine = "RWEB"
               /\ G_copy'.edges \subseteq G_copy.edges
               /\ G_copy'.edges # G_copy.edges
            \/ /\ engine = "IRWEB"
               /\ walk_edges_visited \subseteq walk_edges_visited'
               /\ walk_edges_visited' # walk_edges_visited]_vars

\* C17 witness: IRWEB returned with an empty stack, below n visited nodes,
\* after walking every edge of a triangle.
C17_Witness ==
    /\ engine = "IRWEB" /\ pc = "done" /\ ValidParameters
    /\ stack = <<>>
    /\ Cardinality(visited) < max_n
    /\ Cardinality(walk_edges_visited) = 6

\* C18: edge blocking.  Every move of RWEB goes along an edge that is in the
\* working graph and removes it, and the working graph never gets an edge
\* back; every move of IRWEB goes along a source edge not marked as walked
\* and marks it in both directions, after which neither endpoint has the
\* other among its move choices, and no mark is ever removed.  So no walk
\* moves along the same undirected source edge twice.
C18_EdgeBlocking ==
    [][/\ (engine = "RWEB" /\ pc = "loop") =>
            /\ G_copy'.edges \subseteq G_copy.edges
            /\ Len(stack') = Len(stack) + 1 =>
                  LET e == {stack[Len(stack)], stack'[Len(stack')]}
                  IN  e \in G_copy.edges /\ e \notin G_copy'.edges
       /\ (engine = "IRWEB" /\ pc = "loop") =>
            /\ walk_edges_visited \subseteq walk_edges_visited'
            /\ (pc' = "loop" /\ Len(stack') >= Len(stack)) =>
                  LET u == current_node
                      v == current_node'
                  IN  /\ {u, v} \in G_copy.edges
                      /\ <<u, v>> \notin walk_edges_visited
                      /\ <<v, u>> \notin walk_edges_visited
                      /\ v \notin IRWEB_Available(G_copy, u, walk_edges_visited')
                      /\ u \notin IRWEB_Available(G_copy, v, walk_edges_visited')]_vars

\* C18 witness: RWEB walked around a triangle back to its start node, three
\* edges of the working graph are gone.
C18_Witness ==
    /\ engine = "RWEB" /\ pc = "loop"
    /\ Len(stack) = 4 /\ stack[4] = stack[1]
    /\ number_of_nodes(sampled_graph) = 3
    /\ Cardinality(G_copy.edges) = Cardinality(Source.edges) - 3

\* C19: TIES snapshot timing.  On the scan step that makes the number of
\* selected nodes reach or pass a threshold t for the first time, the slot of
\* t gets the subgraph of the source induced on the nodes selected right
\* after that step, which has t or t + 1 nodes; slots of thresholds not yet
\* reached stay empty, a slot once taken is never changed by a later edge,
\* and the returned list holds it unchanged.
C19_TIESSnapshotTiming ==
    [][(engine = "TIES" /\ pc = "loop") =>
          LET src    == Source
              before == Cardinality(sampled_nodes)
              after  == Cardinality(sampled_nodes')
          IN  \A i \in DOMAIN checkpoint_graphs :
                LET t == checkpoint_sizes[i]
                IN  /\ (before < t /\ t <= after) =>
                          /\ checkpoint_graphs'[i] = subgraph(src, sampled_nodes')
                          /\ number_of_nodes(checkpoint_graphs'[i]) \in {t, t + 1}
                    /\ after < t => (pc' = "loop" => checkpoint_graphs'[i] = None)
                    /\ before >= t =>
                          /\ checkpoint_graphs[i] # None
                          /\ checkpoint_graphs'[i] = checkpoint_graphs[i]
                          /\ pc' = "done" => result'[i] = checkpoint_graphs[i]]_vars

\* C19 witness: with thresholds 1, 3, 5 TIES returned a 2-node snapshot for
\* threshold 1 and a 3-node snapshot for threshold 3 after selecting 4 nodes.
C19_Witness ==
    /\ engine = "TIES" /\ pc = "done"
    /\ checkpoint_sizes = <<1, 3, 5>>
    /\ number_of_nodes(result[1]) = 2
    /\ number_of_nodes(result[2]) = 3
    /\ Cardinality(sampled_nodes) = 4

\* C20: the samples of the traversal engines are connected.  In every state
\* of RWEB, SB and IRWEB after the start node was picked, every node of the
\* sampled graph, of every snapshot taken and of every returned graph is
\* joined to the start node by a path of edges of that graph, and the start
\* node is in it.
C20_SamplesConnected ==
    (engine \in {"RWEB", "SB", "IRWEB"} /\ start_node # NoNode) =>
        \A g \in SampleGraphs :
            /\ start_node \in g.nodes
            /\ Reach(g, {start_node}) = g.nodes

\* C20 witness: SB on the 6-cycle returned a 1-node snapshot and a 4-node
\* final sample, whose last node is two edges away from the start node.
C20_Witness ==
    /\ engine = "SB" /\ pc = "done" /\ G = Cycle6
    /\ checkpoint_sizes = <<1, 3, 5>>
    /\ number_of_nodes(result[1]) = 1
    /\ number_of_nodes(result[3]) = 4
    /\ Neighbors(Source, start_node) \subseteq result[3].nodes

====
